---- MODULE Spec2Model ----
(***************************************************************************)
(* Videoflix backend: the transcoding pipeline (video_app/tasks.py), the   *)
(* ingestion trigger (video_app/signals.py) and the streaming views        *)
(* (video_app/api/views.py), as one state machine.                         *)
(*                                                                         *)
(* The metadata store is the function db (one row per id), the output tree *)
(* and the thumbnail directory are fs, the job queue and its workers are   *)
(* the sequence jobs: one entry per submitted job, holding the worker's    *)
(* position in process_video_to_hls and its in-memory Video instance.      *)
(* Model.save() writes every field of the in-memory instance to the row.   *)
(* A behaviour follows one Video record at a time; requests name any id.   *)
(* Database writes are taken to succeed; the external processes (ffmpeg,   *)
(* ffprobe) and the queue submission succeed or fail nondeterministically. *)
(***************************************************************************)
EXTENDS Integers, Sequences, FiniteSets, TLC

\* ------------------------------------------------------------------ bounds

\* The ids the store may assign, in order from 1. The store holds one Video
\* record at a time; the ids not yet assigned have no row.
MaxId == 2

\* Most segment files the transcoder writes for one resolution.
MaxSegments == 2

\* The worker processes of the queue's pool.
MaxWorkers == 1

VideoIds == 1..MaxId

Titles == {"a", "b"}

\* ------------------------------------------------------- the Video record

NoneValue == -1

\* A row that is absent from the store (id 0 is never assigned).
NoRecord ==
    [id |-> 0, title |-> "a", original_file |-> FALSE,
     processing_status |-> "pending", processing_progress |-> 0,
     processing_error |-> "", hls_directory |-> 0,
     duration_seconds |-> NoneValue, file_size_mb |-> NoneValue,
     thumbnail |-> 0]

\* Video(...) with the model's field defaults; hls_directory and thumbnail
\* hold the id whose path they name (media/hls/<id>/, thumbnails/<id>_thumb.jpg)
\* and 0 when unset; processing_error "" stands for None.
Video(id, title, file) ==
    [id |-> id, title |-> title, original_file |-> file,
     processing_status |-> "pending", processing_progress |-> 0,
     processing_error |-> "", hls_directory |-> 0,
     duration_seconds |-> NoneValue, file_size_mb |-> NoneValue,
     thumbnail |-> 0]

\* ------------------------------------------------------ the resolution ladder

resolutions ==
    << [name |-> "360p",  height |-> 360,  bitrate |-> "800k"],
       [name |-> "480p",  height |-> 480,  bitrate |-> "1200k"],
       [name |-> "720p",  height |-> 720,  bitrate |-> "2500k"],
       [name |-> "1080p", height |-> 1080, bitrate |-> "5000k"] >>

LadderNames == {resolutions[k].name : k \in 1..Len(resolutions)}

\* One resolution's output directory: whether it exists, whether it holds
\* index.m3u8, and how many segment files (index0.ts, index1.ts, ...) it holds.
NoDir == [dir |-> FALSE, manifest |-> FALSE, segments |-> 0]

\* The files of one video id: media/hls/<id>/, its subdirectories, and
\* media/thumbnails/<id>_thumb.jpg.
\* source is the uploaded file under videos/original/: 0 when there is none,
\* else the number of 10-second segments its transcoding yields.
NoFiles ==
    [source |-> 0, root |-> FALSE, res |-> [n \in LadderNames |-> NoDir],
     thumb |-> FALSE]

VARIABLES db, fs, jobs, instances, submitted, create_raised, next_id, resp, cleanups

vars == <<db, fs, jobs, instances, submitted, create_raised, next_id, resp, cleanups>>

\* ---------------------------------------------------------------- the store

Exists(d, id) == id \in VideoIds /\ d[id].id # 0

\* Model.save(): UPDATE the row of instance.id, INSERT it when none is there.
Save(d, instance) == [d EXCEPT ![instance.id] = instance]

\* the post_save signal's `created` flag for that save
Created(d, instance) == ~Exists(d, instance.id)

\* ------------------------------------------------------------- the files

\* File names are sequences of characters.
IndexM3u8 == <<"i", "n", "d", "e", "x", ".", "m", "3", "u", "8">>

DigitChar == <<"0", "1", "2", "3", "4", "5", "6", "7", "8", "9">>

\* the k-th segment ffmpeg's hls muxer writes beside index.m3u8: index<k>.ts
SegmentFile(k) == <<"i", "n", "d", "e", "x", DigitChar[k + 1], ".", "t", "s">>

\* f"media/hls/{id}/{resolution}/{name}"
HlsPath(id, resolution, name) == [id |-> id, resolution |-> resolution, name |-> name]

NoPath == [id |-> 0, resolution |-> "", name |-> << >>]

\* os.path.exists(path) on the output tree f
PathExists(f, path) ==
    /\ path.id \in VideoIds
    /\ path.resolution \in LadderNames
    /\ LET d == f[path.id].res[path.resolution]
       IN \/ path.name = IndexM3u8 /\ d.manifest
          \/ \E k \in 0..(d.segments - 1) : path.name = SegmentFile(k)

\* os.path.isfile(video.original_file.path): the uploaded file is on disk
SourceExists(f, id) == f[id].source > 0

\* What the Cleanup Handler did at the last deletion of a record: the removals
\* it attempted, those that raised, and whether it raised to the caller; count
\* is the number of deletions of that id so far.
NoCleanup == [count |-> 0, attempted |-> {}, failed |-> {}, raised |-> FALSE]

\* ------------------------------------------------------------ the job queue

\* A job of the default queue: process_video_to_hls(video_id), with the
\* worker's position (pc), its in-memory instance (video), the loop index (i),
\* the exception being propagated (error), the exception it has logged and
\* swallowed (swallowed), the external processes it has invoked (calls) and
\* the distinct progress values it has persisted (progress_log); runs counts
\* the times the queue has handed it to a worker or is about to.
Job(video_id) ==
    [video_id |-> video_id, pc |-> "queued", i |-> 0, video |-> NoRecord,
     error |-> "", swallowed |-> "", calls |-> << >>, progress_log |-> << >>,
     runs |-> 1]

\* queue.enqueue(process_video_to_hls, video_id, job_timeout=1800)
queue_video_processing(js, video_id) == Append(js, Job(video_id))

\* what queue.enqueue can raise (queue unreachable, serialization error)
QueueErrors == {"ConnectionError"}

\* ------------------------------------------------------- the ingestion trigger

\* mutant: the receiver forgets the `created` flag
ShouldQueue_IgnoresCreated(instance, created) == instance.original_file

\* video_post_save: `if created and instance.original_file`
ShouldQueue(instance, created) == created /\ instance.original_file

\* mutant: the except branch records the error and leaves the status
FailedToQueue_KeepsStatus(instance, e) ==
    [instance EXCEPT !.processing_error = "Failed to queue processing job: " \o e]

\* the receiver's except branch: the instance it marks and saves
FailedToQueue(instance, e) ==
    [instance EXCEPT !.processing_status = "failed",
                     !.processing_error = "Failed to queue processing job: " \o e]

\* `except Exception as e` in the receiver: what it lets through to the caller
ReceiverPropagates(e) == FALSE

\* The receiver, run for a save of `instance` that left the store as d: the
\* set of its outcomes. When it queues, the submission returns a job or raises;
\* on a raise the receiver saves the instance as failed, and that save sends
\* post_save again (created is then FALSE, the store holding the row). The
\* receiver is handed the saver's own object, so what it sets on the instance
\* the saver holds afterwards.
video_post_save(d, js, sub, instance, created) ==
    IF ShouldQueue(instance, created)
    THEN {[db |-> d, jobs |-> queue_video_processing(js, instance.id),
           submitted |-> [sub EXCEPT ![instance.id] = @ + 1], raised |-> FALSE,
           instance |-> instance]}
         \cup
         {[db |-> Save(d, FailedToQueue(instance, e)), jobs |-> js,
           submitted |-> [sub EXCEPT ![instance.id] = @ + 1 +
               (IF ShouldQueue(FailedToQueue(instance, e), Created(d, instance))
                THEN 1 ELSE 0)],
           raised |-> ReceiverPropagates(e),
           instance |-> FailedToQueue(instance, e)] : e \in QueueErrors}
    ELSE {[db |-> d, jobs |-> js, submitted |-> sub, raised |-> FALSE,
           instance |-> instance]}

\* instance.save() by a holder of an in-memory instance: the row is written and
\* the post_save receiver runs in the same call.
SaveOutcomes(d, js, sub, instance) ==
    video_post_save(Save(d, instance), js, sub, instance, Created(d, instance))

\* Video.objects.create(...): the INSERT. The row is committed with the model's
\* defaults before post_save is sent; the receiver's run is CreateSignal.
\* `segments` is 0 for a record without a source file, else the uploaded
\* file's length in segments.
Create(title, segments) ==
    /\ next_id \in VideoIds
    /\ \A v \in VideoIds : ~Exists(db, v)
    /\ db' = Save(db, Video(next_id, title, segments > 0))
    /\ instances' = [instances EXCEPT ![next_id] = Video(next_id, title, segments > 0)]
    /\ fs' = [fs EXCEPT ![next_id].source = segments]
    /\ next_id' = next_id + 1
    /\ UNCHANGED <<jobs, submitted, create_raised, resp, cleanups>>

\* post_save(created=True) of the create above, handled by video_post_save.
CreateSignal(v) ==
    /\ instances[v].id # 0
    /\ \E o \in video_post_save(db, jobs, submitted, instances[v], TRUE) :
          /\ db' = o.db
          /\ jobs' = o.jobs
          /\ submitted' = o.submitted
          /\ create_raised' = [create_raised EXCEPT ![v] = o.raised]
    /\ instances' = [instances EXCEPT ![v] = NoRecord]
    /\ UNCHANGED <<fs, next_id, resp, cleanups>>

\* A later save of an existing record by another holder (admin form, ORM
\* update): the row is read, its title set, and saved.
SaveExisting(v, title) ==
    /\ Exists(db, v)
    /\ db[v].title # title
    /\ \E o \in SaveOutcomes(db, jobs, submitted, [db[v] EXCEPT !.title = title]) :
          /\ db' = o.db
          /\ jobs' = o.jobs
          /\ submitted' = o.submitted
    /\ UNCHANGED <<fs, instances, create_raised, next_id, resp, cleanups>>

\* choices=PROCESSING_STATUS_CHOICES
StatusChoices == {"pending", "processing", "completed", "failed"}

\* The admin change form of VideoAdmin: readonly_fields lists
\* processing_progress, processing_error, hls_directory, duration_seconds and
\* file_size_mb, so processing_status is an editable field of the form; the
\* object is saved with the value chosen.
AdminChange(v, status) ==
    /\ Exists(db, v)
    /\ instances[v].id = 0
    /\ db[v].processing_status # status
    /\ \E o \in SaveOutcomes(db, jobs, submitted,
                             [db[v] EXCEPT !.processing_status = status]) :
          /\ db' = o.db
          /\ jobs' = o.jobs
          /\ submitted' = o.submitted
    /\ UNCHANGED <<fs, instances, create_raised, next_id, resp, cleanups>>

\* ------------------------------------------------------ the external processes

Max(a, b) == IF a >= b THEN a ELSE b

\* ffmpeg ... -f hls <dir>/index.m3u8, exit status 0: the manifest and the
\* source's segments are in the directory (no -hls_segment_filename is passed,
\* so the segments are index0.ts, index1.ts, ...).
Transcoded(old, n) ==
    [dir |-> TRUE, manifest |-> TRUE, segments |-> Max(old.segments, n)]

\* What process_resolution can leave behind when it raises: nothing new
\* (os.makedirs failed), or the directory with any part of the output.
PartlyTranscoded(old, n) ==
    {old} \cup
    {[dir |-> TRUE, manifest |-> m, segments |-> k] :
        m \in {b \in BOOLEAN : old.manifest => b},
        k \in {x \in 0..Max(old.segments, n) : x >= old.segments}}

EncoderErrors == {"CalledProcessError: ffmpeg returned non-zero exit status 1"}

\* ffprobe -show_entries format=duration -of csv=p=0: stdout as tenths of a
\* second, and os.path.getsize(input_path) in bytes.
ProbeOutputs == {[tenths |-> 127, bytes |-> 5242879]}

ProbeErrors ==
    {"CalledProcessError: ffprobe returned non-zero exit status 1",
     "ValueError: could not convert string to float"}

\* int(float(stdout)): the fraction is dropped
DurationSeconds(tenths) == tenths \div 10

\* mutant: the size is not computed
FileSizeMb_NotComputed(bytes) == NoneValue

\* file_size_bytes // (1024 * 1024)
FileSizeMb(bytes) == bytes \div (1024 * 1024)

\* ------------------------------------------------------------- the pipeline

\* mutant: the loop index is used as the count of completed resolutions
LoopProgress_FromIndex(i, n) == (i * 80) \div n

\* mutant: the loop counts the resolutions still to do
LoopProgress_Remaining(i, n) == ((n - i) * 80) \div n

\* progress = int((i + 1) / len(resolutions) * 80), i counted from 0
LoopProgress(i, n) == ((i + 1) * 80) \div n

LogProgress(log, p) ==
    IF log # << >> /\ log[Len(log)] = p THEN log ELSE Append(log, p)

\* video.save() by the worker of job j, whose job record becomes `job`.
WorkerSave(j, job) ==
    \E o \in SaveOutcomes(db,
                [jobs EXCEPT ![j] =
                    [job EXCEPT !.progress_log =
                        LogProgress(@, job.video.processing_progress)]],
                submitted, job.video) :
        /\ db' = o.db
        /\ jobs' = [o.jobs EXCEPT ![j].video = o.instance]
        /\ submitted' = o.submitted

\* a worker is executing the job
InFlight(job) == job.pc \notin {"queued", "returned", "raised"}

\* The queue hands out jobs in submission order, to a worker that is free.
FirstQueued(j) ==
    /\ jobs[j].pc = "queued"
    /\ \A k \in 1..(j - 1) : jobs[k].pc # "queued"
    /\ Cardinality({k \in 1..Len(jobs) : InFlight(jobs[k])}) < MaxWorkers

\* process_video_to_hls, lines 34-36 and 50-53: Video.objects.get(id=video_id);
\* Video.DoesNotExist is re-raised as a plain Exception, nothing is saved.
StartJob(j) ==
    /\ FirstQueued(j)
    /\ jobs' = [jobs EXCEPT ![j] =
            IF Exists(db, jobs[j].video_id)
            THEN [@ EXCEPT !.pc = "setup", !.video = db[jobs[j].video_id]]
            ELSE [@ EXCEPT !.pc = "raised", !.error = "Video not found"]]
    /\ UNCHANGED <<db, fs, instances, submitted, create_raised, next_id, resp, cleanups>>

\* setup_video_processing, lines 69-71
SetupStatus(video) ==
    [video EXCEPT !.processing_status = "processing", !.processing_progress = 0]

Setup(j) ==
    /\ jobs[j].pc = "setup"
    /\ WorkerSave(j, [jobs[j] EXCEPT !.pc = "makedirs",
                                     !.video = SetupStatus(@)])
    /\ UNCHANGED <<fs, instances, create_raised, next_id, resp, cleanups>>

\* what os.makedirs can raise (no permission, disk full)
SetupErrors == {"OSError: media/hls/"}

\* setup_video_processing, lines 74-80: os.makedirs(output_dir, exist_ok=True)
\* creates the directory or finds it, and the path is saved; or it raises, and
\* nothing catches that before process_video_to_hls does.
SetupDirectory(j) ==
    /\ jobs[j].pc = "makedirs"
    /\ \E ok \in BOOLEAN :
          IF ok
          THEN /\ fs' = [fs EXCEPT ![jobs[j].video.id].root = TRUE]
               /\ WorkerSave(j, [jobs[j] EXCEPT !.pc = "encode", !.i = 0,
                                     !.video.hls_directory = jobs[j].video.id])
          ELSE \E e \in SetupErrors :
               /\ jobs' = [jobs EXCEPT ![j] = [@ EXCEPT !.pc = "except", !.error = e]]
               /\ UNCHANGED <<db, fs, submitted>>
    /\ UNCHANGED <<instances, create_raised, next_id, resp, cleanups>>

\* mutant: the loop stops one ladder entry early
AfterResolution_StopsEarly(i) ==
    IF i + 2 < Len(resolutions) THEN "encode" ELSE "finalize"

\* mutant: the loop is left after its first entry
AfterResolution_OneEntry(i) == "finalize"

\* the worker's position after resolution i has been encoded and persisted
AfterResolution(i) == IF i + 1 < Len(resolutions) THEN "encode" ELSE "finalize"

\* mutant: the encoder's failure is logged and the loop goes on
AfterEncoderError_Continue(job, e) == [job EXCEPT !.pc = "progress", !.error = e]

\* process_resolution, lines 172-174, and process_all_resolutions, line 102:
\* the error is logged and re-raised, nothing catches it before
\* process_video_to_hls does
AfterEncoderError(job, e) == [job EXCEPT !.pc = "except", !.error = e]

\* process_all_resolutions, line 102: process_resolution for entry i. The
\* transcoder exits 0, or process_resolution raises and the loop is left.
\* os.makedirs(res_output_dir, exist_ok=True) makes the video's directory too
\* when it is not there.
Encode(j) ==
    /\ jobs[j].pc = "encode"
    /\ LET id == jobs[j].video.id
           name == resolutions[jobs[j].i + 1].name
           old == fs[id].res[name]
           called == [jobs[j] EXCEPT !.calls = Append(@, "ffmpeg " \o name)]
       IN \E ok \in {b \in BOOLEAN : b => SourceExists(fs, id)} :
            IF ok
            THEN /\ fs' = [fs EXCEPT ![id].res[name] = Transcoded(old, fs[id].source),
                                     ![id].root = TRUE]
                 /\ jobs' = [jobs EXCEPT ![j] = [called EXCEPT !.pc = "progress"]]
            ELSE \E e \in EncoderErrors, left \in PartlyTranscoded(old, fs[id].source) :
                 /\ fs' = [fs EXCEPT ![id].res[name] = left,
                                     ![id].root = @ \/ left.dir]
                 /\ jobs' = [jobs EXCEPT ![j] = AfterEncoderError(called, e)]
    /\ UNCHANGED <<db, instances, submitted, create_raised, next_id, resp, cleanups>>

\* process_all_resolutions, lines 105-107
Progress(j) ==
    /\ jobs[j].pc = "progress"
    /\ WorkerSave(j, [jobs[j] EXCEPT
            !.pc = AfterResolution(jobs[j].i),
            !.i = @ + 1,
            !.video.processing_progress = LoopProgress(jobs[j].i, Len(resolutions))])
    /\ UNCHANGED <<fs, instances, create_raised, next_id, resp, cleanups>>

\* finalize_video_processing, lines 120-121
MetadataProgress(j) ==
    /\ jobs[j].pc = "finalize"
    /\ WorkerSave(j, [jobs[j] EXCEPT !.pc = "metadata",
                                     !.video.processing_progress = 85])
    /\ UNCHANGED <<fs, instances, create_raised, next_id, resp, cleanups>>

\* mutant: the metadata failure is logged and not re-raised
AfterMetadataError_Swallowed(job, e) ==
    [job EXCEPT !.pc = "thumbnail_progress", !.error = e]

\* mutant: the prober is tried again after a failure
AfterMetadataError_Retry(job, e) == [job EXCEPT !.pc = "metadata"]

\* extract_video_metadata, lines 206-211: both except clauses log and re-raise
AfterMetadataError(job, e) == [job EXCEPT !.pc = "except", !.error = e]

\* extract_video_metadata: both fields are set and saved, or the exception
\* is logged and re-raised.
ExtractMetadata(j) ==
    /\ jobs[j].pc = "metadata"
    /\ LET called == [jobs[j] EXCEPT !.calls = Append(@, "ffprobe")]
       IN \E ok \in {b \in BOOLEAN : b => SourceExists(fs, jobs[j].video.id)} :
            IF ok
            THEN \E out \in ProbeOutputs :
                 WorkerSave(j, [called EXCEPT
                     !.pc = "thumbnail_progress",
                     !.video.duration_seconds = DurationSeconds(out.tenths),
                     !.video.file_size_mb = FileSizeMb(out.bytes)])
            ELSE \E e \in ProbeErrors :
                 /\ jobs' = [jobs EXCEPT ![j] = AfterMetadataError(called, e)]
                 /\ UNCHANGED <<db, submitted>>
    /\ UNCHANGED <<fs, instances, create_raised, next_id, resp, cleanups>>

\* finalize_video_processing, lines 126-127
ThumbnailProgress(j) ==
    /\ jobs[j].pc = "thumbnail_progress"
    /\ WorkerSave(j, [jobs[j] EXCEPT !.pc = "thumbnail",
                                     !.video.processing_progress = 95])
    /\ UNCHANGED <<fs, instances, create_raised, next_id, resp, cleanups>>

ThumbnailErrors ==
    {"CalledProcessError: ffmpeg returned non-zero exit status 1",
     "OSError: media/thumbnails/"}

\* mutant: the thumbnail failure is re-raised
AfterThumbnailError_Raised(job, e) ==
    [job EXCEPT !.pc = "except", !.error = e, !.swallowed = e]

\* generate_thumbnail, lines 241-247: both except clauses log and do not raise
AfterThumbnailError(job, e) == [job EXCEPT !.pc = "complete", !.swallowed = e]

\* generate_thumbnail: ffmpeg writes the frame and the field is saved, or the
\* failure (CalledProcessError, any other Exception) is logged and swallowed.
GenerateThumbnail(j) ==
    /\ jobs[j].pc = "thumbnail"
    /\ LET id == jobs[j].video.id
           called == [jobs[j] EXCEPT !.calls = Append(@, "ffmpeg thumbnail")]
       IN \E ok \in {b \in BOOLEAN : b => SourceExists(fs, id)} :
            IF ok
            THEN /\ fs' = [fs EXCEPT ![id].thumb = TRUE]
                 /\ WorkerSave(j, [called EXCEPT !.pc = "complete",
                                                 !.video.thumbnail = id])
            ELSE \E e \in ThumbnailErrors :
                 /\ jobs' = [jobs EXCEPT ![j] = AfterThumbnailError(called, e)]
                 /\ UNCHANGED <<db, fs, submitted>>
    /\ UNCHANGED <<instances, create_raised, next_id, resp, cleanups>>

\* finalize_video_processing, lines 131-133
Completed(video) ==
    [video EXCEPT !.processing_status = "completed", !.processing_progress = 100]

Complete(j) ==
    /\ jobs[j].pc = "complete"
    /\ WorkerSave(j, [jobs[j] EXCEPT !.pc = "returned", !.video = Completed(@)])
    /\ UNCHANGED <<fs, instances, create_raised, next_id, resp, cleanups>>

\* mutant: the except branch puts the record back to pending
Failed_BackToPending(video, e) ==
    [video EXCEPT !.processing_status = "pending", !.processing_error = e]

\* mutant: the except branch does not store the error text
Failed_WithoutError(video, e) == [video EXCEPT !.processing_status = "failed"]

\* mutant: the except branch also resets the progress
Failed_ResetsProgress(video, e) ==
    [video EXCEPT !.processing_status = "failed", !.processing_error = e,
                  !.processing_progress = 0]

\* mutant: the except branch stores the error text and leaves the status
Failed_KeepsStatus(video, e) == [video EXCEPT !.processing_error = e]

\* process_video_to_hls, lines 54-61: `except Exception as e`
Failed(video, e) ==
    [video EXCEPT !.processing_status = "failed", !.processing_error = e]

HandleException(j) ==
    /\ jobs[j].pc = "except"
    /\ WorkerSave(j, [jobs[j] EXCEPT !.pc = "raised",
                                     !.video = Failed(@, jobs[j].error)])
    /\ UNCHANGED <<fs, instances, create_raised, next_id, resp, cleanups>>

\* Most times the queue hands one job to a worker.
MaxRuns == 2

\* `raise e` (line 61) hands the failure to the queue, which keeps the job in
\* its failed registry; from there the job (same function, same video_id) can
\* be put back on the queue and run again from the start.
Requeue(j) ==
    /\ jobs[j].pc = "raised"
    /\ jobs[j].runs < MaxRuns
    /\ jobs' = [jobs EXCEPT ![j] =
            [Job(jobs[j].video_id) EXCEPT !.runs = jobs[j].runs + 1]]
    /\ UNCHANGED <<db, fs, instances, submitted, create_raised, next_id, resp, cleanups>>

\* ------------------------------------------------------- the cleanup handler

\* Most deletions of one id in a behaviour.
MaxDeletes == 1

Resources == {"original_file", "hls_directory", "thumbnail"}

\* The files of one id with those of `missing` gone (removed by hand, lost with
\* a volume) before the handler looks for them.
Lost(files, missing) ==
    [source |-> IF "original_file" \in missing THEN 0 ELSE files.source,
     root   |-> IF "hls_directory" \in missing THEN FALSE ELSE files.root,
     res    |-> IF "hls_directory" \in missing
                THEN [n \in LadderNames |-> NoDir] ELSE files.res,
     thumb  |-> IF "thumbnail" \in missing THEN FALSE ELSE files.thumb]

\* `if instance.<field>:` before each removal; without hls_directory the
\* handler falls back to f"media/hls/{instance.id}/", so that removal is
\* always wanted
Wanted(instance, resource) ==
    CASE resource = "original_file" -> instance.original_file
      [] resource = "hls_directory" -> TRUE
      [] resource = "thumbnail"     -> instance.thumbnail # 0

\* os.path.isfile(...) / os.path.exists(...) inside the try
Present(files, resource) ==
    CASE resource = "original_file" -> files.source > 0
      [] resource = "hls_directory" -> files.root
      [] resource = "thumbnail"     -> files.thumb

\* os.remove(...) / shutil.rmtree(...) when it returns
Removed(files, resource) == Lost(files, {resource})

\* mutant: a removal's exception is logged and raised again
CleanupPropagates_Reraise(resource) == TRUE

\* `except Exception as e` around each removal: what it lets through
CleanupPropagates(resource) == FALSE

\* One of the handler's three blocks, reached unless an earlier one raised out
\* of the handler; `fails` says whether the removal call raises.
Removal(c, instance, resource, fails) ==
    IF c.raised \/ ~Wanted(instance, resource)
    THEN c
    ELSE IF ~Present(c.files, resource)
    THEN [c EXCEPT !.attempted = @ \cup {resource}]
    ELSE IF fails
    THEN [c EXCEPT !.attempted = @ \cup {resource},
                   !.failed = @ \cup {resource},
                   !.raised = CleanupPropagates(resource)]
    ELSE [c EXCEPT !.attempted = @ \cup {resource},
                   !.files = Removed(@, resource)]

\* auto_delete_file_on_delete(sender, instance): source, tree, thumbnail
auto_delete_file_on_delete(files, instance, failing) ==
    LET c0 == [files |-> files, attempted |-> {}, failed |-> {}, raised |-> FALSE]
        c1 == Removal(c0, instance, "original_file", "original_file" \in failing)
        c2 == Removal(c1, instance, "hls_directory", "hls_directory" \in failing)
    IN Removal(c2, instance, "thumbnail", "thumbnail" \in failing)

\* instance.delete() on a record whose creation is over: the row is deleted
\* and post_delete runs the handler inside the same transaction, so an
\* exception out of the handler would undo the deletion. `missing` are the
\* files that have gone missing beforehand, `failing` the removals that raise.
Delete(v, missing, failing) ==
    /\ Exists(db, v)
    /\ instances[v].id = 0
    /\ cleanups[v].count < MaxDeletes
    /\ LET c == auto_delete_file_on_delete(Lost(fs[v], missing), db[v], failing)
       IN /\ fs' = [fs EXCEPT ![v] = c.files]
          /\ cleanups' = [cleanups EXCEPT ![v] =
                 [count |-> @.count + 1, attempted |-> c.attempted,
                  failed |-> c.failed, raised |-> c.raised]]
          /\ db' = IF c.raised THEN db ELSE [db EXCEPT ![v] = NoRecord]
    /\ UNCHANGED <<jobs, instances, submitted, create_raised, next_id, resp>>

\* -------------------------------------------------------- the streaming views

NoResponse == [view |-> "none"]

Response(status, detail, content_type, body, lookups) ==
    [status |-> status, detail |-> detail, content_type |-> content_type,
     body |-> body, lookups |-> lookups]

\* Response({"detail": detail}, status=404)
NotFound(detail, lookups) == Response(404, detail, "application/json", NoPath, lookups)

\* What a request carries as access token (Authorization header or cookie):
\* none, one that fails validation, or a valid one.
Credentials == {"none", "invalid", "valid"}

\* CookieJWTAuthentication.authenticate: the token's user, or None when there
\* is no token or its validation raised
CookieJWTAuthentication(credentials) ==
    IF credentials = "valid" THEN "user" ELSE "None"

\* mutant: the views are left open (permission_classes = [AllowAny])
IsAuthenticated_AllowAny(user) == TRUE

\* permission_classes = [IsAuthenticated]: request.user is a user
IsAuthenticated(user) == user # "None"

\* the request is refused before get() is called
NotAuthenticated ==
    Response(401, "Authentication credentials were not provided.",
             "application/json", NoPath, << >>)

\* mutant: the allow-list lacks the top ladder entry
ALLOWED_RESOLUTIONS_WithoutTop == {"360p", "480p", "720p"}

ALLOWED_RESOLUTIONS == {"360p", "480p", "720p", "1080p"}

\* mutant: the resolution is validated before the record is looked up
HLSManifestView_get_ResolutionFirst(d, f, movie_id, resolution) ==
    IF resolution \notin ALLOWED_RESOLUTIONS
    THEN NotFound("Invalid resolution", << >>)
    ELSE IF ~Exists(d, movie_id)
    THEN NotFound("Video not found", << >>)
    ELSE LET hls_file_path == HlsPath(d[movie_id].id, resolution, IndexM3u8)
         IN IF ~PathExists(f, hls_file_path)
            THEN NotFound("Manifest not found", <<hls_file_path>>)
            ELSE Response(200, "", "application/vnd.apple.mpegurl",
                          hls_file_path, <<hls_file_path>>)

\* HLSManifestView.get; a file's content is named by its path
HLSManifestView_get(d, f, movie_id, resolution) ==
    IF ~Exists(d, movie_id)
    THEN NotFound("Video not found", << >>)
    ELSE IF resolution \notin ALLOWED_RESOLUTIONS
    THEN NotFound("Invalid resolution", << >>)
    ELSE LET hls_file_path == HlsPath(d[movie_id].id, resolution, IndexM3u8)
         IN IF ~PathExists(f, hls_file_path)
            THEN NotFound("Manifest not found", <<hls_file_path>>)
            ELSE Response(200, "", "application/vnd.apple.mpegurl",
                          hls_file_path, <<hls_file_path>>)

\* \d of a str pattern: any Unicode decimal digit (U+0663 is ARABIC-INDIC THREE)
Digits == {DigitChar[k] : k \in 1..Len(DigitChar)} \cup {"U+0663"}

AllDigits(s) == \A k \in 1..Len(s) : s[k] \in Digits

\* (index\d+|\d{3})
SegmentStem(s) ==
    \/ Len(s) = 3 /\ AllDigits(s)
    \/ /\ Len(s) > 5
       /\ SubSeq(s, 1, 5) = <<"i", "n", "d", "e", "x">>
       /\ AllDigits(SubSeq(s, 6, Len(s)))

\* mutant: the dot of the pattern is not escaped
StemDotTs_AnyChar(s) ==
    /\ Len(s) >= 3
    /\ SubSeq(s, Len(s) - 1, Len(s)) = <<"t", "s">>
    /\ SegmentStem(SubSeq(s, 1, Len(s) - 3))

\* ^(index\d+|\d{3})\.ts at the end of s
StemDotTs(s) ==
    /\ Len(s) >= 3
    /\ SubSeq(s, Len(s) - 2, Len(s)) = <<".", "t", "s">>
    /\ SegmentStem(SubSeq(s, 1, Len(s) - 3))

\* mutant: the name is not validated
SegmentNameMatch_Unchecked(segment) == TRUE

\* re.match(r'^(index\d+|\d{3})\.ts$', segment): $ matches at the end of the
\* string and before a newline that ends it
SegmentNameMatch(segment) ==
    \/ StemDotTs(segment)
    \/ /\ Len(segment) >= 1
       /\ segment[Len(segment)] = "\n"
       /\ StemDotTs(SubSeq(segment, 1, Len(segment) - 1))

\* mutant: the segment is served with the playlist's content type
HLSSegmentView_get_PlaylistType(d, f, movie_id, resolution, segment) ==
    IF ~Exists(d, movie_id)
    THEN NotFound("Video not found", << >>)
    ELSE IF resolution \notin ALLOWED_RESOLUTIONS
    THEN NotFound("Invalid resolution", << >>)
    ELSE IF ~SegmentNameMatch(segment)
    THEN NotFound("Invalid segment name", << >>)
    ELSE LET segment_file_path == HlsPath(d[movie_id].id, resolution, segment)
         IN IF ~PathExists(f, segment_file_path)
            THEN NotFound("Segment not found", <<segment_file_path>>)
            ELSE Response(200, "", "application/vnd.apple.mpegurl",
                          segment_file_path, <<segment_file_path>>)

\* HLSSegmentView.get
HLSSegmentView_get(d, f, movie_id, resolution, segment) ==
    IF ~Exists(d, movie_id)
    THEN NotFound("Video not found", << >>)
    ELSE IF resolution \notin ALLOWED_RESOLUTIONS
    THEN NotFound("Invalid resolution", << >>)
    ELSE IF ~SegmentNameMatch(segment)
    THEN NotFound("Invalid segment name", << >>)
    ELSE LET segment_file_path == HlsPath(d[movie_id].id, resolution, segment)
         IN IF ~PathExists(f, segment_file_path)
            THEN NotFound("Segment not found", <<segment_file_path>>)
            ELSE Response(200, "", "video/MP2T",
                          segment_file_path, <<segment_file_path>>)

\* the requests of a behaviour
RequestIds == VideoIds

RequestResolutions == ALLOWED_RESOLUTIONS \cup {"4k"}

Ts == <<".", "t", "s">>

SegmentNames ==
    { <<"0", "0", "0">> \o Ts,
      <<"1">> \o Ts,
      <<"0", "0", "0", "0">> \o Ts,
      <<"a", "b", "c">> \o Ts,
      <<"U+0663", "U+0663", "U+0663">> \o Ts,
      <<"0", "0", "0", "x", "t", "s">>,
      <<"0", "0", "0", ".", "m", "p", "4">>,
      <<"0", "0", "0">> \o Ts \o <<"x">>,
      <<"0", "0", "0">> \o Ts \o <<"\n">>,
      <<"x", "0", "0", "0">> \o Ts,
      <<"i", "n", "d", "e", "x">> \o Ts,
      SegmentFile(0),
      SegmentFile(1),
      <<"i", "n", "d", "e", "x", "1", "2">> \o Ts,
      <<"i", "n", "d", "e", "x", "1", "a">> \o Ts,
      <<".", ".">>,
      <<".", ".", "/", "0", "0", "0">> \o Ts }

\* <str:segment>: StringConverter's [^/]+
StrConverter(s) == Len(s) >= 1 /\ \A k \in 1..Len(s) : s[k] # "/"

\* no pattern of urlpatterns matches the path: the resolver's 404 page
NoRoute == Response(404, "Not Found", "text/html", NoPath, << >>)

\* A request and its answer; authed says whether authentication found a user,
\* read whether the view is past its read of the file (if it reads one).
Request(view, credentials, movie_id, resolution, segment, response) ==
    [view |-> view, credentials |-> credentials,
     authed |-> CookieJWTAuthentication(credentials) # "None",
     movie_id |-> movie_id, resolution |-> resolution, segment |-> segment,
     response |-> response, read |-> TRUE]

\* GET video/<int:movie_id>/<str:resolution>/index.m3u8
ManifestFetch(credentials, movie_id, resolution) ==
    /\ resp = NoResponse
    /\ resp' = Request("manifest", credentials, movie_id, resolution, IndexM3u8,
                  IF IsAuthenticated(CookieJWTAuthentication(credentials))
                  THEN HLSManifestView_get(db, fs, movie_id, resolution)
                  ELSE NotAuthenticated)
    /\ UNCHANGED <<db, fs, jobs, instances, submitted, create_raised, next_id, cleanups>>

\* GET video/<int:movie_id>/<str:resolution>/<str:segment>
SegmentFetch(credentials, movie_id, resolution, segment) ==
    /\ resp = NoResponse
    /\ resp' =
          IF ~StrConverter(segment)
          THEN Request("no route", credentials, movie_id, resolution, segment,
                       NoRoute)
          ELSE Request("segment", credentials, movie_id, resolution, segment,
                  IF IsAuthenticated(CookieJWTAuthentication(credentials))
                  THEN HLSSegmentView_get(db, fs, movie_id, resolution, segment)
                  ELSE NotAuthenticated)
    /\ UNCHANGED <<db, fs, jobs, instances, submitted, create_raised, next_id, cleanups>>

\* An exception that leaves get(): the framework's handler knows API
\* exceptions only, so the answer is the server's error page.
ServerError(e, lookups) == Response(500, e, "text/html", NoPath, lookups)

\* `with open(path) as f: f.read()` for the answer r that os.path.exists has
\* let through: the content, or FileNotFoundError when the file is no longer
\* there
Opened(f, r) ==
    IF PathExists(f, r.body) THEN r ELSE ServerError("FileNotFoundError", r.lookups)

\* a view up to its os.path.exists check: the 404 it answers, or the 200 it
\* is about to build from the file
Checked(request) == [request EXCEPT !.read = request.response.status # 200]

\* HLSManifestView.get, lines 79-94, the file not yet opened
ManifestCheck(credentials, movie_id, resolution) ==
    /\ resp = NoResponse
    /\ resp' = Checked(Request("manifest", credentials, movie_id, resolution,
                  IndexM3u8,
                  IF IsAuthenticated(CookieJWTAuthentication(credentials))
                  THEN HLSManifestView_get(db, fs, movie_id, resolution)
                  ELSE NotAuthenticated))
    /\ UNCHANGED <<db, fs, jobs, instances, submitted, create_raised, next_id, cleanups>>

\* HLSSegmentView.get, lines 129-146, the file not yet opened
SegmentCheck(credentials, movie_id, resolution, segment) ==
    /\ resp = NoResponse
    /\ StrConverter(segment)
    /\ resp' = Checked(Request("segment", credentials, movie_id, resolution,
                  segment,
                  IF IsAuthenticated(CookieJWTAuthentication(credentials))
                  THEN HLSSegmentView_get(db, fs, movie_id, resolution, segment)
                  ELSE NotAuthenticated))
    /\ UNCHANGED <<db, fs, jobs, instances, submitted, create_raised, next_id, cleanups>>

\* lines 97-98 and 149-150: the file is opened and read
ReadFile ==
    /\ resp # NoResponse
    /\ ~resp.read
    /\ resp' = [resp EXCEPT !.response = Opened(fs, @), !.read = TRUE]
    /\ UNCHANGED <<db, fs, jobs, instances, submitted, create_raised, next_id, cleanups>>

\* the response is sent and the request is over
Deliver ==
    /\ resp # NoResponse
    /\ resp.read
    /\ resp' = NoResponse
    /\ UNCHANGED <<db, fs, jobs, instances, submitted, create_raised, next_id, cleanups>>

\* ------------------------------------------------------------ specification

Init ==
    /\ db = [v \in VideoIds |-> NoRecord]
    /\ fs = [v \in VideoIds |-> NoFiles]
    /\ jobs = << >>
    /\ instances = [v \in VideoIds |-> NoRecord]
    /\ submitted = [v \in VideoIds |-> 0]
    /\ create_raised = [v \in VideoIds |-> FALSE]
    /\ next_id = 1
    /\ resp = NoResponse
    /\ cleanups = [v \in VideoIds |-> NoCleanup]

\* every step but the creation of a record
Steps ==
    \/ \E v \in VideoIds : CreateSignal(v)
    \/ \E v \in VideoIds, title \in Titles : SaveExisting(v, title)
    \/ \E j \in 1..Len(jobs) : StartJob(j)
    \/ \E j \in 1..Len(jobs) : Setup(j)
    \/ \E j \in 1..Len(jobs) : SetupDirectory(j)
    \/ \E j \in 1..Len(jobs) : Encode(j)
    \/ \E j \in 1..Len(jobs) : Progress(j)
    \/ \E j \in 1..Len(jobs) : MetadataProgress(j)
    \/ \E j \in 1..Len(jobs) : ExtractMetadata(j)
    \/ \E j \in 1..Len(jobs) : ThumbnailProgress(j)
    \/ \E j \in 1..Len(jobs) : GenerateThumbnail(j)
    \/ \E j \in 1..Len(jobs) : Complete(j)
    \/ \E j \in 1..Len(jobs) : HandleException(j)

Next ==
    \/ \E title \in Titles, segments \in 0..MaxSegments : Create(title, segments)
    \/ Steps

Spec == Init /\ [][Next]_vars

\* the pipeline together with the streaming requests
StreamNext ==
    \/ Next
    \/ \E credentials \in Credentials, movie_id \in RequestIds,
          resolution \in RequestResolutions :
          ManifestFetch(credentials, movie_id, resolution)
    \/ \E credentials \in Credentials, movie_id \in RequestIds,
          resolution \in RequestResolutions, segment \in SegmentNames :
          SegmentFetch(credentials, movie_id, resolution, segment)
    \/ Deliver

StreamSpec == Init /\ [][StreamNext]_vars

\* the pipeline together with re-runs of failed jobs
RerunNext ==
    \/ Next
    \/ \E j \in 1..Len(jobs) : Requeue(j)

RerunSpec == Init /\ [][RerunNext]_vars

\* a worker executes the next statement of the job it has picked up
Running ==
    \E j \in 1..Len(jobs) :
        \/ Setup(j)
        \/ SetupDirectory(j)
        \/ Encode(j)
        \/ Progress(j)
        \/ MetadataProgress(j)
        \/ ExtractMetadata(j)
        \/ ThumbnailProgress(j)
        \/ GenerateThumbnail(j)
        \/ Complete(j)
        \/ HandleException(j)

\* Runs and re-runs in which a worker that has picked a job up goes on with
\* it: subprocess.run returns, and the worker process is not killed.
FairSpec == Init /\ [][RerunNext]_vars /\ WF_vars(Running)

\* the pipeline together with the admin surface
AdminNext ==
    \/ Next
    \/ \E v \in VideoIds, status \in StatusChoices : AdminChange(v, status)

AdminSpec == Init /\ [][AdminNext]_vars

\* no worker is executing a job of video v
Idle(v) == \A j \in 1..Len(jobs) : jobs[j].video_id = v => ~InFlight(jobs[j])

\* the creation of the first record
CreateFirst(title, segments) == next_id = 1 /\ Create(title, segments)

\* a deletion requested while no job of the video is in flight
DeleteIdle(v, missing, failing) == Idle(v) /\ Delete(v, missing, failing)

\* The life of the first record, from its creation to its deletion, the
\* deletion being requested while no job of the video is in flight.
DeleteNext ==
    \/ \E title \in Titles, segments \in 0..MaxSegments : CreateFirst(title, segments)
    \/ Steps
    \/ \E v \in VideoIds, missing \in SUBSET Resources, failing \in SUBSET Resources :
          DeleteIdle(v, missing, failing)

DeleteSpec == Init /\ [][DeleteNext]_vars

\* The life of the first record, the deletion being requested at any time.
LifeNext ==
    \/ \E title \in Titles, segments \in 0..MaxSegments : CreateFirst(title, segments)
    \/ Steps
    \/ \E v \in VideoIds, missing \in SUBSET Resources, failing \in SUBSET Resources :
          Delete(v, missing, failing)

LifeSpec == Init /\ [][LifeNext]_vars

\* the segment names the transcoder can have written
WrittenSegments == {SegmentFile(k) : k \in 0..(MaxSegments - 1)}

\* The life of the first record together with the requests of an authenticated
\* caller, the view's check of the file and its read of the file being two
\* steps; deletions are requested while no job of the video is in flight.
RaceNext ==
    \/ \E title \in Titles, segments \in 0..MaxSegments : CreateFirst(title, segments)
    \/ Steps
    \/ \E v \in VideoIds, missing \in SUBSET Resources, failing \in SUBSET Resources :
          DeleteIdle(v, missing, failing)
    \/ \E movie_id \in RequestIds, resolution \in RequestResolutions :
          ManifestCheck("valid", movie_id, resolution)
    \/ \E movie_id \in RequestIds, resolution \in RequestResolutions,
          segment \in WrittenSegments :
          SegmentCheck("valid", movie_id, resolution, segment)
    \/ ReadFile
    \/ Deliver

RaceSpec == Init /\ [][RaceNext]_vars

\* ==================================================================== claims

JobIds == 1..Len(jobs)

\* the jobs keyed by id v
JobsOf(v) == {j \in JobIds : jobs[j].video_id = v}

StatusChange(v) ==
    /\ Exists(db, v)
    /\ Exists(db', v)
    /\ db'[v].processing_status # db[v].processing_status

PipelineTransitions ==
    { <<"pending", "processing">>, <<"processing", "completed">>,
      <<"processing", "failed">> }

C2_ProgressSequence ==
    \A j \in JobIds :
        /\ jobs[j].pc = "returned" =>
               jobs[j].progress_log = <<0, 20, 40, 60, 80, 85, 95, 100>>
        /\ (jobs[j].pc \in {"encode", "finalize"} /\ jobs[j].i >= 1) =>
               /\ db[jobs[j].video_id].processing_progress = (jobs[j].i * 80) \div 4
               /\ jobs[j].progress_log[Len(jobs[j].progress_log)]
                      = (jobs[j].i * 80) \div 4

\* a run has returned with every stage, the thumbnail included, succeeded
C2_Witness ==
    \E j \in JobIds :
        /\ jobs[j].pc = "returned"
        /\ jobs[j].swallowed = ""
        /\ db[jobs[j].video_id].thumbnail = jobs[j].video_id

\* C3: when process_video_to_hls returns without raising, the record is
\* completed at progress 100 and every ladder entry has its subdirectory with a
\* manifest and at least one segment file.
C3_SuccessfulRun ==
    [][\A j \in JobIds :
          (jobs[j].pc # "returned" /\ jobs'[j].pc = "returned") =>
              LET v == jobs[j].video_id
              IN /\ db'[v].processing_status = "completed"
                 /\ db'[v].processing_progress = 100
                 /\ \A k \in 1..Len(resolutions) :
                       LET d == fs'[v].res[resolutions[k].name]
                       IN d.dir /\ d.manifest /\ d.segments >= 1]_vars

\* a run has returned and the tree holds all four resolutions
C3_Witness ==
    \E j \in JobIds :
        /\ jobs[j].pc = "returned"
        /\ \A n \in {"360p", "480p", "720p", "1080p"} :
              fs[jobs[j].video_id].res[n].manifest

\* the ladder entry the encoder was last started for
EncoderFailedAt(job) == Len(job.calls)

InSeq(x, seq) == \E k \in 1..Len(seq) : seq[k] = x

\* C5: a failure of metadata extraction aborts the run as an encoder failure
\* does: the thumbnail step and finalize are never executed, the status never
\* becomes completed, and the run ends with the record failed and its
\* processing_error set to the failure.
C5_MetadataFailure ==
    \A j \in JobIds :
        jobs[j].error \in ProbeErrors =>
            LET v == jobs[j].video_id
            IN /\ jobs[j].pc \in {"except", "raised"}
               /\ ~InSeq("ffmpeg thumbnail", jobs[j].calls)
               /\ ~InSeq(95, jobs[j].progress_log)
               /\ ~InSeq(100, jobs[j].progress_log)
               /\ db[v].processing_status # "completed"
               /\ jobs[j].pc = "raised" =>
                      /\ db[v].processing_status = "failed"
                      /\ db[v].processing_error = jobs[j].error

\* a run has ended on an unparsable duration
C5_Witness ==
    \E j \in JobIds :
        /\ jobs[j].pc = "raised"
        /\ jobs[j].error = "ValueError: could not convert string to float"
        /\ db[jobs[j].video_id].processing_status = "failed"

\* C6: a failed thumbnail step never prevents completion: the run goes on to
\* return, and then the record is completed at progress 100 with an empty
\* processing_error and no thumbnail.
C6_ThumbnailFailure ==
    \A j \in JobIds :
        jobs[j].swallowed \in ThumbnailErrors =>
            LET v == jobs[j].video_id
            IN /\ jobs[j].pc \in {"complete", "returned"}
               /\ jobs[j].error = ""
               /\ db[v].processing_error = ""
               /\ db[v].thumbnail = 0
               /\ jobs[j].pc = "returned" =>
                      /\ db[v].processing_status = "completed"
                      /\ db[v].processing_progress = 100

\* a run has returned after its thumbnail step failed
C6_Witness ==
    \E j \in JobIds :
        /\ jobs[j].pc = "returned"
        /\ jobs[j].swallowed \in ThumbnailErrors
        /\ db[jobs[j].video_id].processing_status = "completed"

\* the receiver has run for the record's creation
Handled(v) == Exists(db, v) /\ instances[v].id = 0

QueueFailureMessages == {"Failed to queue processing job: " \o e : e \in QueueErrors}

\* C7: queue_video_processing is called exactly when a record has been created
\* with a source file, once and for that record's id; a record created without
\* a file has no job and stays pending at progress 0; no step on an existing
\* record (a later save, the trigger's own save after a failed submission, a
\* worker's save) submits a job.
C7_SubmitOnCreate ==
    /\ \A v \in VideoIds :
          /\ submitted[v] = IF Handled(v) /\ db[v].original_file THEN 1 ELSE 0
          /\ Cardinality(JobsOf(v)) =
                 IF submitted[v] = 1 /\ db[v].processing_error \notin QueueFailureMessages
                 THEN 1 ELSE 0
          /\ (Exists(db, v) /\ ~db[v].original_file) =>
                 /\ db[v].processing_status = "pending"
                 /\ db[v].processing_progress = 0
    /\ \A j \in JobIds : Exists(db, jobs[j].video_id)

\* the one job of a record has returned, and the record was saved again since
C7_Witness ==
    \E j \in JobIds :
        /\ jobs[j].pc = "returned"
        /\ submitted[jobs[j].video_id] = 1
        /\ db[jobs[j].video_id].title # jobs[j].video.title

\* C8: when the submission fails for a record created with a file, the trigger
\* has made that one attempt only, the record is stored failed with the
\* submission error in processing_error, and the creation has not raised.
C8_SubmissionFailure ==
    \A v \in VideoIds :
        (Handled(v) /\ db[v].original_file /\ JobsOf(v) = {}) =>
            /\ submitted[v] = 1
            /\ db[v].processing_status = "failed"
            /\ db[v].processing_error \in QueueFailureMessages
            /\ ~create_raised[v]

\* a submission has failed
C8_Witness ==
    \E v \in VideoIds :
        /\ Handled(v)
        /\ db[v].original_file
        /\ JobsOf(v) = {}
        /\ db[v].processing_status = "failed"

\* the step in which a view answers a request
Answered(view) ==
    /\ resp = NoResponse
    /\ resp' # NoResponse
    /\ resp'.view = view
    /\ resp'.authed

\* C9: for an authenticated caller, manifest fetch answers the first failing
\* check of: record missing -> 404 "Video not found"; resolution outside
\* {360p, 480p, 720p, 1080p} -> 404 "Invalid resolution"; no manifest file on
\* disk -> 404 "Manifest not found"; otherwise 200 with the manifest's text and
\* the HLS playlist content type.
C9_ManifestFetch ==
    [][Answered("manifest") =>
          LET r == resp'.response
              id == resp'.movie_id
              res == resp'.resolution
          IN IF db[id].id = 0
             THEN r.status = 404 /\ r.detail = "Video not found"
             ELSE IF res \notin {"360p", "480p", "720p", "1080p"}
             THEN r.status = 404 /\ r.detail = "Invalid resolution"
             ELSE IF ~fs[id].res[res].manifest
             THEN r.status = 404 /\ r.detail = "Manifest not found"
             ELSE /\ r.status = 200
                  /\ r.body = [id |-> id, resolution |-> res, name |-> IndexM3u8]
                  /\ r.content_type = "application/vnd.apple.mpegurl"]_vars

\* a manifest has been served
C9_Witness ==
    /\ resp # NoResponse
    /\ resp.view = "manifest"
    /\ resp.authed
    /\ resp.response.status = 200

IsDecimalDigit(c) ==
    c \in {"0", "1", "2", "3", "4", "5", "6", "7", "8", "9", "U+0663"}

\* exactly three decimal digits followed by ".ts"
ThreeDigitsTs(s) ==
    /\ Len(s) = 6
    /\ \A k \in 1..3 : IsDecimalDigit(s[k])
    /\ <<s[4], s[5], s[6]>> = <<".", "t", "s">>

\* "index", one or more decimal digits, ".ts"
IndexDigitsTs(s) ==
    /\ Len(s) >= 9
    /\ <<s[1], s[2], s[3], s[4], s[5]>> = <<"i", "n", "d", "e", "x">>
    /\ \A k \in 6..(Len(s) - 3) : IsDecimalDigit(s[k])
    /\ <<s[Len(s) - 2], s[Len(s) - 1], s[Len(s)]>> = <<".", "t", "s">>

\* s without the newline that ends it, if one does
Chomp(s) ==
    IF Len(s) >= 1 /\ s[Len(s)] = "\n" THEN SubSeq(s, 1, Len(s) - 1) ELSE s

\* the step answers a segment request for an existing video and an allowed
\* resolution
SegmentNameChecked ==
    /\ Answered("segment")
    /\ db[resp'.movie_id].id # 0
    /\ resp'.resolution \in {"360p", "480p", "720p", "1080p"}

SegmentNameRejected ==
    /\ resp'.response.status = 404
    /\ resp'.response.detail = "Invalid segment name"
    /\ resp'.response.lookups = << >>

\* C10 (as stated): a segment name is accepted only if it is exactly three
\* decimal digits followed by ".ts"; every other name is answered 404 "Invalid
\* segment name" before any filesystem lookup.
C10_Original ==
    [][SegmentNameChecked =>
          IF ThreeDigitsTs(resp'.segment)
          THEN resp'.response.detail # "Invalid segment name"
          ELSE SegmentNameRejected]_vars

\* C10 (amended): a segment name is accepted only if it is exactly three
\* decimal digits, or "index" and one or more decimal digits, followed by ".ts"
\* and at most one closing newline; every other name is answered 404 "Invalid
\* segment name" before any filesystem lookup.
C10_SegmentName ==
    [][SegmentNameChecked =>
          IF ThreeDigitsTs(Chomp(resp'.segment)) \/ IndexDigitsTs(Chomp(resp'.segment))
          THEN resp'.response.detail # "Invalid segment name"
          ELSE SegmentNameRejected]_vars

\* a malformed name has been rejected for an existing video
C10_Witness ==
    /\ resp # NoResponse
    /\ resp.view = "segment"
    /\ resp.authed
    /\ resp.segment = <<"1", ".", "t", "s">>
    /\ resp.response.detail = "Invalid segment name"

\* a name that, joined to a directory, names an entry of that directory
DirectChild(name) ==
    /\ name # << >>
    /\ \A k \in 1..Len(name) : name[k] # "/"
    /\ name \notin { <<".">>, <<".", ".">> }

\* C11: every file a segment fetch looks up or reads is an entry of
\* media/hls/<id>/<resolution>/ for the requested id and an allowed resolution:
\* a name that gets as far as a lookup holds no path separator and is no
\* parent-directory component.
C11_SegmentPathConfined ==
    (resp # NoResponse /\ resp.view = "segment") =>
        LET r == resp.response
        IN /\ \A k \in 1..Len(r.lookups) :
                 /\ r.lookups[k].id = resp.movie_id
                 /\ r.lookups[k].resolution = resp.resolution
                 /\ r.lookups[k].resolution \in {"360p", "480p", "720p", "1080p"}
                 /\ r.lookups[k].name = resp.segment
                 /\ DirectChild(r.lookups[k].name)
           /\ r.body # NoPath => r.lookups = <<r.body>>

\* an accepted name has been looked up and read in its directory
C11_Witness ==
    /\ resp # NoResponse
    /\ resp.view = "segment"
    /\ resp.segment = SegmentFile(1)
    /\ resp.response.lookups =
           <<HlsPath(resp.movie_id, resp.resolution, SegmentFile(1))>>
    /\ resp.response.body = HlsPath(resp.movie_id, resp.resolution, SegmentFile(1))

\* C12: for an authenticated caller, an existing video, an allowed resolution
\* and a valid segment name, segment fetch answers 404 "Segment not found" when
\* the file is not on disk, and otherwise 200 with the file's bytes and the
\* content type video/MP2T.
C12_SegmentFetch ==
    [][(/\ SegmentNameChecked
        /\ \/ ThreeDigitsTs(Chomp(resp'.segment))
           \/ IndexDigitsTs(Chomp(resp'.segment))) =>
          LET r == resp'.response
              id == resp'.movie_id
              res == resp'.resolution
              name == resp'.segment
              on_disk == \E k \in 0..(fs[id].res[res].segments - 1) :
                            name = SegmentFile(k)
          IN IF ~on_disk
             THEN r.status = 404 /\ r.detail = "Segment not found"
             ELSE /\ r.status = 200
                  /\ r.body = [id |-> id, resolution |-> res, name |-> name]
                  /\ r.content_type = "video/MP2T"]_vars

\* a segment the pipeline wrote has been served
C12_Witness ==
    /\ resp # NoResponse
    /\ resp.view = "segment"
    /\ resp.authed
    /\ resp.segment = SegmentFile(0)
    /\ resp.response.status = 200
    /\ resp.response.content_type = "video/MP2T"

\* C13: a manifest or segment request without an authenticated caller is
\* answered 401 before the view runs: no record or file is looked up, and the
\* answer is never 200 and never carries file content, whatever the id, the
\* resolution and the segment name.
C13_AuthenticationRequired ==
    (resp # NoResponse /\ ~resp.authed) =>
        /\ resp.response.status # 200
        /\ resp.response.lookups = << >>
        /\ resp.response.body = NoPath
        /\ resp.view \in {"manifest", "segment"} =>
               /\ resp.response.status = 401
               /\ resp.response.detail
                      \notin {"Video not found", "Invalid resolution",
                              "Invalid segment name", "Manifest not found",
                              "Segment not found"}

\* a caller with an invalid token has asked for a segment that is on disk, and
\* was refused
C13_Witness ==
    /\ resp # NoResponse
    /\ resp.view = "segment"
    /\ resp.credentials = "invalid"
    /\ PathExists(fs, HlsPath(resp.movie_id, resp.resolution, resp.segment))
    /\ resp.response.status = 401

\* the removals the handler owes a record: its source file if it has one, its
\* output tree, its thumbnail if it has one
Owed(record) ==
    {r \in {"original_file"} : record.original_file}
        \cup {"hls_directory"}
        \cup {r \in {"thumbnail"} : record.thumbnail # 0}

\* the step deletes record v
Deleting(v) == Exists(db, v) /\ cleanups'[v].count = cleanups[v].count + 1

\* C14: when a record is deleted, the handler attempts each of the removals it
\* owes the record, whichever files are already missing and whichever removals
\* fail; it raises nothing, the row is gone afterwards, and every file whose
\* removal did not fail is off the disk.
C14_CleanupIndependent ==
    [][\A v \in VideoIds :
          Deleting(v) =>
              LET c == cleanups'[v]
              IN /\ c.attempted = Owed(db[v])
                 /\ c.failed \subseteq c.attempted
                 /\ ~c.raised
                 /\ ~Exists(db', v)
                 /\ "original_file" \in (c.attempted \ c.failed) =>
                        fs'[v].source = 0
                 /\ "hls_directory" \notin c.failed =>
                        /\ ~fs'[v].root
                        /\ \A n \in {"360p", "480p", "720p", "1080p"} :
                              ~fs'[v].res[n].dir /\ ~fs'[v].res[n].manifest
                 /\ "thumbnail" \in (c.attempted \ c.failed) =>
                        ~fs'[v].thumb]_vars

\* a completed record has been deleted: the removal of the source and that of
\* the tree failed, and the thumbnail was removed all the same
C14_Witness ==
    \E v \in VideoIds :
        /\ cleanups[v].count = 1
        /\ cleanups[v].failed = {"original_file", "hls_directory"}
        /\ cleanups[v].attempted = {"original_file", "hls_directory", "thumbnail"}
        /\ ~Exists(db, v)
        /\ fs[v].root
        /\ ~fs[v].thumb

\* C15: in every state of a stored record, processing_error is non-empty only
\* if processing_status is failed, the re-run of a failed job included.
C15_ErrorOnlyWhenFailed ==
    \A v \in VideoIds :
        (Exists(db, v) /\ db[v].processing_error # "") =>
            db[v].processing_status = "failed"

\* the step is job j's write of Setup's reset
SetupReset(j) == jobs[j].pc = "setup" /\ jobs'[j].pc = "makedirs"

\* C16: the stored processing_progress of a record never decreases, whether
\* the run succeeds or fails, except by Setup's reset to 0 at the start of a
\* run or re-run; and the values one run persists are in ascending order.
C16_ProgressMonotone ==
    [][/\ \A v \in VideoIds :
             (/\ Exists(db, v)
              /\ Exists(db', v)
              /\ db'[v].processing_progress < db[v].processing_progress) =>
                 /\ db'[v].processing_progress = 0
                 /\ \E j \in JobsOf(v) : SetupReset(j)
       /\ \A j \in JobIds :
             LET log == jobs'[j].progress_log
             IN \A k \in 1..(Len(log) - 1) : log[k] < log[k + 1]]_vars

\* a re-run is past its second resolution: the first run had reached 85
C16_Witness ==
    \E j \in JobIds :
        /\ jobs[j].runs = 2
        /\ jobs[j].pc = "encode"
        /\ db[jobs[j].video_id].processing_progress = 40
        /\ db[jobs[j].video_id].processing_error \in ProbeErrors

\* the step is job j's write of the failure
FailureWrite(j) == jobs[j].pc = "except" /\ jobs'[j].pc = "raised"

\* C17: the write that sets processing_status to failed leaves the stored
\* processing_progress as it was, which is the value the run last persisted:
\* the failure neither resets nor advances it.
C17_FailureKeepsProgress ==
    [][\A j \in JobIds :
          FailureWrite(j) =>
              LET v == jobs[j].video_id
                  log == jobs[j].progress_log
              IN /\ db'[v].processing_status = "failed"
                 /\ db'[v].processing_progress = db[v].processing_progress
                 /\ log # << >>
                 /\ db'[v].processing_progress = log[Len(log)]
                 /\ jobs'[j].progress_log = log]_vars

\* a run has failed in the third resolution, the record staying at 40
C17_Witness ==
    \E j \in JobIds :
        /\ jobs[j].pc = "raised"
        /\ jobs[j].error \in EncoderErrors
        /\ EncoderFailedAt(jobs[j]) = 3
        /\ db[jobs[j].video_id].processing_status = "failed"
        /\ db[jobs[j].video_id].processing_progress = 40

EssentialErrors == EncoderErrors \cup ProbeErrors

\* C18: once an encode or the metadata probe has failed, the job runs no
\* further stage and never returns: its only next step is the write of status
\* failed with the failure's text in processing_error, and the exception
\* reaches the queue only with that write done.
C18_EssentialFailure ==
    [][\A j \in JobIds :
          /\ jobs[j].error \in EssentialErrors =>
                 /\ jobs[j].pc \in {"except", "raised"}
                 /\ jobs'[j].pc \in {"except", "raised", "queued"}
                 /\ jobs[j].swallowed = ""
          /\ (jobs[j].pc # "raised" /\ jobs'[j].pc = "raised"
                  /\ jobs'[j].error \in EssentialErrors) =>
                 /\ jobs[j].pc = "except"
                 /\ jobs[j].error = jobs'[j].error
                 /\ db'[jobs[j].video_id].processing_status = "failed"
                 /\ db'[jobs[j].video_id].processing_error = jobs'[j].error
          /\ jobs'[j].pc = "returned" =>
                 /\ jobs'[j].error = ""
                 /\ \A n \in {"360p", "480p", "720p", "1080p"} :
                        InSeq("ffmpeg " \o n, jobs'[j].calls)
                 /\ db'[jobs[j].video_id].duration_seconds # NoneValue]_vars

\* the exception of a failed encode has reached the queue
C18_Witness ==
    \E j \in JobIds :
        /\ jobs[j].pc = "raised"
        /\ jobs[j].error \in EncoderErrors
        /\ EncoderFailedAt(jobs[j]) = 1
        /\ db[jobs[j].video_id].processing_error = jobs[j].error

\* the jobs of video v that are queued or being executed
Unfinished(v) == {j \in JobsOf(v) : jobs[j].pc \notin {"returned", "raised"}}

\* C19: at any time a video has at most one job that is queued or running, and
\* over its whole life at most one job is submitted for its id, for every
\* interleaving of saves, pipeline steps and deletions.
C19_OneJobPerVideo ==
    \A v \in VideoIds :
        /\ Cardinality(JobsOf(v)) <= 1
        /\ Cardinality(Unfinished(v)) <= 1

PipelineFields ==
    {"processing_status", "processing_progress", "processing_error",
     "hls_directory", "duration_seconds", "file_size_mb", "thumbnail"}

\* the step is one of a worker executing a job of video v
WorkerStep(v) ==
    \E j \in JobsOf(v) : InFlight(jobs[j]) /\ jobs'[j] # jobs[j]

\* C20: a stored record's processing_status, processing_progress,
\* processing_error, hls_directory, duration_seconds, file_size_mb and
\* thumbnail are changed only by steps of the worker executing that video's
\* job: the trigger, the admin surface, the streaming views and the cleanup
\* handler change none of them.
C20_OnlyWorkerWrites ==
    [][\A v \in VideoIds :
          (/\ Exists(db, v)
           /\ Exists(db', v)
           /\ \E f \in PipelineFields : db'[v][f] # db[v][f]) =>
              WorkerStep(v)]_vars

\* C21: when Setup has finished and the first resolution is not yet encoded,
\* the record is processing at progress 0 with hls_directory naming the video's
\* own output directory, and that directory exists and is empty, whatever an
\* earlier run has left in it.
C21_SetupDirectoryEmpty ==
    \A j \in JobIds :
        (jobs[j].pc = "encode" /\ jobs[j].i = 0) =>
            LET v == jobs[j].video_id
            IN /\ db[v].processing_status = "processing"
               /\ db[v].processing_progress = 0
               /\ db[v].hls_directory = v
               /\ fs[v].root
               /\ \A n \in {"360p", "480p", "720p", "1080p"} : fs[v].res[n] = NoDir

\* the transcoder's invocations for the first k ladder entries, in ladder order
LadderCalls(k) == [n \in 1..k |-> "ffmpeg " \o resolutions[n].name]

\* the step in which job j starts an external process
Invokes(j) == Len(jobs'[j].calls) = Len(jobs[j].calls) + 1

\* C22: within a run the encoder is started for the ladder entries one at a
\* time in the order 360p, 480p, 720p, 1080p: it is started for entry k+1 only
\* when it has exited successfully for entries 1..k and the progress of entry k
\* is stored, and the prober is started only when all four are done.
C22_SequentialLadder ==
    [][\A j \in JobIds :
          Invokes(j) =>
              LET v == jobs[j].video_id
                  n == Len(jobs[j].calls)
                  c == jobs'[j].calls[n + 1]
                  log == jobs[j].progress_log
              IN /\ n < 4 => c = "ffmpeg " \o resolutions[n + 1].name
                 /\ n = 4 => c = "ffprobe"
                 /\ n <= 4 =>
                        /\ jobs[j].calls = LadderCalls(n)
                        /\ jobs[j].error = ""
                        /\ \A k \in 1..n :
                               LET d == fs[v].res[resolutions[k].name]
                               IN d.manifest /\ d.segments >= 1
                        /\ n >= 1 =>
                               /\ db[v].processing_progress =
                                      IF n < 4 THEN (n * 80) \div 4 ELSE 85
                               /\ InSeq((n * 80) \div 4, log)]_vars

\* the prober has been started, after the four encodes in ladder order
C22_Witness ==
    \E j \in JobIds :
        jobs[j].calls =
            <<"ffmpeg 360p", "ffmpeg 480p", "ffmpeg 720p", "ffmpeg 1080p", "ffprobe">>

\* C23: in every state of a record during its first run, duration_seconds and
\* file_size_mb are both absent or both present, and they are absent while the
\* stored progress is below 85: the two are written in one save, after the
\* resolution loop.
C23_MetadataTogether ==
    \A v \in VideoIds :
        Exists(db, v) =>
            /\ db[v].duration_seconds = NoneValue <=> db[v].file_size_mb = NoneValue
            /\ db[v].processing_progress < 85 =>
                   /\ db[v].duration_seconds = NoneValue
                   /\ db[v].file_size_mb = NoneValue
            /\ \A j \in JobsOf(v) :
                   jobs[j].pc \in {"thumbnail_progress", "thumbnail", "complete",
                                   "returned"} =>
                       /\ db[v].duration_seconds # NoneValue
                       /\ db[v].file_size_mb # NoneValue

\* the prober has succeeded and both values are stored, at progress 85
C23_Witness ==
    \E j \in JobIds :
        LET v == jobs[j].video_id
        IN /\ jobs[j].pc = "thumbnail_progress"
           /\ db[v].processing_progress = 85
           /\ db[v].duration_seconds = 12
           /\ db[v].file_size_mb = 4

\* C24: no step of a worker changes the stored source file reference of a
\* record or its stored title (which stands for the fields the pipeline does
\* not own: title, description, category), also when another writer has
\* changed them since the worker read the record.
C24_PipelineKeepsOtherFields ==
    [][\A j \in JobIds :
          (InFlight(jobs[j]) /\ jobs'[j] # jobs[j]) =>
              LET v == jobs[j].video_id
              IN (Exists(db, v) /\ Exists(db', v)) =>
                     /\ db'[v].title = db[v].title
                     /\ db'[v].original_file = db[v].original_file]_vars

\* C25: within one run every external process is invoked at most once (the
\* transcoder once per ladder entry, the prober once, the thumbnail extractor
\* once), and once a stage has failed with an error that aborts the run, the
\* run invokes no further external process.
C25_NoInternalRetry ==
    [][\A j \in JobIds :
          /\ \A a, b \in 1..Len(jobs'[j].calls) :
                 jobs'[j].calls[a] = jobs'[j].calls[b] => a = b
          /\ Len(jobs'[j].calls) <= Len(resolutions) + 2
          /\ jobs[j].error # "" =>
                 \/ jobs'[j].calls = jobs[j].calls
                 \/ /\ jobs[j].pc = "raised"
                    /\ jobs'[j].pc = "queued"
                    /\ jobs'[j].runs = jobs[j].runs + 1
                    /\ jobs'[j].calls = << >>]_vars

\* a run has ended on a prober failure, each process invoked once
C25_Witness ==
    \E j \in JobIds :
        /\ jobs[j].pc = "raised"
        /\ jobs[j].error \in ProbeErrors
        /\ jobs[j].calls =
               <<"ffmpeg 360p", "ffmpeg 480p", "ffmpeg 720p", "ffmpeg 1080p",
                 "ffprobe">>
        /\ jobs[j].runs = 2

StableDetails ==
    {"Video not found", "Invalid resolution", "Invalid segment name",
     "Manifest not found", "Segment not found"}

\* C26: every manifest or segment fetch by an authenticated caller is answered
\* 200 or 404 with one of the stable detail messages, never a 5xx, also when
\* the file is removed between the view's existence check and its read.
C26_FetchNeverFails ==
    (/\ resp # NoResponse
     /\ resp.view \in {"manifest", "segment"}
     /\ resp.authed
     /\ resp.read) =>
        \/ resp.response.status = 200
        \/ /\ resp.response.status = 404
           /\ resp.response.detail \in StableDetails

\* C27: once a record has been deleted and the handler has removed its output
\* tree, the record stays absent and nothing of the tree is on disk in any
\* later state, also when a job of the video was in flight at the deletion.
C27_DeletionIsFinal ==
    \A v \in VideoIds :
        (cleanups[v].count >= 1 /\ "hls_directory" \notin cleanups[v].failed) =>
            /\ ~Exists(db, v)
            /\ ~fs[v].root
            /\ \A n \in {"360p", "480p", "720p", "1080p"} : fs[v].res[n] = NoDir

TerminalStatuses == {"completed", "failed"}

\* job j exists and has ended, leaving its record in a terminal status
Ended(j) ==
    /\ j \in JobIds
    /\ jobs[j].pc \in {"returned", "raised"}
    /\ db[jobs[j].video_id].processing_status \in TerminalStatuses

\* C28: a job picked up for an existing video ends, with its record completed
\* when the function returns and failed when it raises; the record is never
\* at processing (or pending) once the function has returned or raised.
C28_RunTerminates ==
    /\ [][\A j \in JobIds :
             (InFlight(jobs[j]) /\ ~InFlight(jobs'[j])) =>
                 LET status == db'[jobs[j].video_id].processing_status
                 IN /\ jobs'[j].pc \in {"returned", "raised"}
                    /\ jobs'[j].pc = "returned" => status = "completed"
                    /\ jobs'[j].pc = "raised" => status = "failed"]_vars
    /\ [](\A j \in JobIds :
             (jobs[j].pc \in {"returned", "raised"} /\ jobs[j].video.id # 0) =>
                 db[jobs[j].video_id].processing_status \in TerminalStatuses)
    /\ \A j \in 1..MaxId :
          (j \in JobIds /\ InFlight(jobs[j])) ~> Ended(j)

\* a run that could not make its output directory has raised, the record failed
C28_Witness ==
    \E j \in JobIds :
        /\ jobs[j].pc = "raised"
        /\ jobs[j].error \in SetupErrors
        /\ db[jobs[j].video_id].processing_status = "failed"

\* C29: in every reachable state a record that is failed has a stored
\* progress of 0, 20, 40, 60, 80 or 85, never 95 or 100.
C29_FailedProgress ==
    \A v \in VideoIds :
        (Exists(db, v) /\ db[v].processing_status = "failed") =>
            db[v].processing_progress \in {0, 20, 40, 60, 80, 85}

\* C30: for every stored video that the pipeline has completed, a manifest
\* fetch by an authenticated caller answers 200 for each of 360p, 480p, 720p
\* and 1080p, and the file it reads is index.m3u8 in that resolution's
\* subdirectory of the directory recorded in the video's hls_directory.
C30_ManifestsOfCompleted ==
    \A v \in VideoIds :
        (Exists(db, v) /\ db[v].processing_status = "completed") =>
            \A n \in {"360p", "480p", "720p", "1080p"} :
                LET r == HLSManifestView_get(db, fs, v, n)
                IN /\ r.status = 200
                   /\ r.content_type = "application/vnd.apple.mpegurl"
                   /\ r.body = [id |-> db[v].hls_directory, resolution |-> n,
                                name |-> IndexM3u8]
                   /\ r.lookups = <<r.body>>
                   /\ fs[db[v].hls_directory].res[n].manifest

\* the top resolution's manifest of a completed video has been served
C30_Witness ==
    /\ resp # NoResponse
    /\ resp.view = "manifest"
    /\ resp.authed
    /\ resp.resolution = "1080p"
    /\ db[resp.movie_id].processing_status = "completed"
    /\ resp.response.status = 200
    /\ resp.response.body.id = db[resp.movie_id].hls_directory

====
